---- MODULE Spec2Model ----
(***************************************************************************)
(* Model of the fsspec / OneDrive / Wikipedia ingest connectors             *)
(* (src/unstructured/ingest/connector).                                     *)
(*                                                                          *)
(* Strings are sequences of one-character strings, so that split, replace   *)
(* and the regular expressions of SimpleFsspecConfig.__post_init__ are      *)
(* computed character by character, as Python computes them.                *)
(***************************************************************************)
EXTENDS Integers, Sequences, FiniteSets, TLC

VARIABLES
    \* ---- SimpleFsspecConfig construction (SpecResolve)
    path,       \* the raw location string handed to SimpleFsspecConfig
    rpc,        \* "init" -> "resolved" -> "rebuilt"
    cfg,        \* outcome of __post_init__ on path
    cfg2,       \* outcome of __post_init__ on the reconstructed string
    \* ---- one ingest run (Spec, SpecFetch)
    kind,       \* the source connector: "fsspec", "onedrive" or "wikipedia"
    recursive,  \* connector_config.recursive
    sizes,      \* the size the backend reports for each of its objects
    dest,       \* connector_config.path of the destination connector, or NoDest
    lpc,        \* "start" -> "listed"
    docs,       \* the list get_ingest_docs returned
    st,         \* per document: lifecycle state and the record of its get_file calls
                \*   calls: get_file calls that returned or raised
                \*   transfers: those of them that the guard did not skip
                \*   contacted: the last call made a request to the backend
                \*   error: what the last call raised to its caller
                \*   raised: the transfer of the last call raised
                \*   got: some transfer of the document completed
                \*   firstOk: the first call transferred a non-empty file
    inflight,   \* per document: where its running get_file call is
                \*   pc: "idle" (no call is running), "guarded" (the guard let
                \*   the call through), "open" (the local file is open for
                \*   writing), "writing" (the first part of the object is written)
                \*   file: the local path the call opened, <<>> before it opens one
    rev,        \* revision_id of the Wikipedia page, as wikipedia.page() returns it
    disk,       \* local file system: path -> "absent", or by the size of the
                \* file "empty" (0 bytes), "partial" (fewer than MaxSize), "full"
    put,        \* per document: the rpath its output was put to, or <<>>
    wlog,       \* the last write() call that returned or raised: its docs, the
                \* uploads that cannot succeed, the outcome
    wr          \* the write() call that is running: its docs, the position of
                \* its for loop, the uploads that cannot succeed

rvars == <<path, rpc, cfg, cfg2>>

lvars == <<kind, recursive, sizes, dest, lpc, docs, st, inflight, rev, disk, put,
           wlog, wr>>

vars == <<path, rpc, cfg, cfg2, kind, recursive, sizes, dest, lpc, docs, st,
          inflight, rev, disk, put, wlog, wr>>

(***************************************************************************)
(* Bounds                                                                   *)
(***************************************************************************)
\* longest text after the scheme part of a raw location string
MaxLen == 4

\* most get_file calls made on one document in a run
MaxFetch == 2

\* highest revision_id the Wikipedia page reaches during a run (it starts at 1)
MaxRev == 2

(***************************************************************************)
(* Characters and string helpers                                            *)
(***************************************************************************)
SLASH == "/"

\* the characters Python's \s matches, as far as the inputs use them
WhiteSpace == {" ", "\n"}

SchemeSep == <<":", "/", "/">>

IsPrefix(p, s) == Len(p) <= Len(s) /\ SubSeq(s, 1, Len(p)) = p

DropFirst(s, n) == SubSeq(s, n + 1, Len(s))

\* str.find: index (1-based) of the first occurrence of old in s, 0 if none
RECURSIVE FindFrom(_, _, _)
FindFrom(s, old, i) ==
    IF i + Len(old) - 1 > Len(s) THEN 0
    ELSE IF SubSeq(s, i, i + Len(old) - 1) = old THEN i
    ELSE FindFrom(s, old, i + 1)

Find(s, old) == FindFrom(s, old, 1)

Contains(s, old) == Find(s, old) # 0

\* str.split(sep): the parts between the non-overlapping occurrences of sep,
\* scanned left to right
RECURSIVE Split(_, _)
Split(s, sep) ==
    LET i == Find(s, sep)
    IN  IF i = 0 THEN <<s>>
        ELSE <<SubSeq(s, 1, i - 1)>> \o Split(DropFirst(s, i + Len(sep) - 1), sep)

\* str.replace(old, new): every non-overlapping occurrence, left to right
RECURSIVE Replace(_, _, _)
Replace(s, old, new) ==
    IF Len(s) < Len(old) THEN s
    ELSE IF SubSeq(s, 1, Len(old)) = old
         THEN new \o Replace(DropFirst(s, Len(old)), old, new)
         ELSE <<s[1]>> \o Replace(Tail(s), old, new)

\* length of the longest prefix of s that holds no character of stop
RECURSIVE RunLen(_, _)
RunLen(s, stop) ==
    IF s = <<>> \/ s[1] \in stop THEN 0 ELSE 1 + RunLen(Tail(s), stop)

\* length of the longest prefix of s whose characters are all in allowed
RECURSIVE RunIn(_, _)
RunIn(s, allowed) ==
    IF s = <<>> \/ s[1] \notin allowed THEN 0 ELSE 1 + RunIn(Tail(s), allowed)

AllSlashes(s) == \A i \in 1..Len(s) : s[i] = SLASH

(***************************************************************************)
(* SimpleFsspecConfig.__post_init__                                         *)
(***************************************************************************)
SUPPORTED_REMOTE_FSSPEC_PROTOCOLS ==
    { <<"s", "3">>, <<"s", "3", "a">>, <<"a", "b", "f", "s">>, <<"a", "z">>,
      <<"g", "s">>, <<"g", "c", "s">>, <<"b", "o", "x">>,
      <<"d", "r", "o", "p", "b", "o", "x">> }

DROPBOX == <<"d", "r", "o", "p", "b", "o", "x">>

\* variant: the membership test of line 48 left out
IsSupportedAny(protocol) == TRUE

IsSupported(protocol) == protocol \in SUPPORTED_REMOTE_FSSPEC_PROTOCOLS

\* `$` matches at the end of the string and before a newline that ends it
AtDollar(s) == s = <<>> \/ s = <<"\n">>

\* __post_init__ raised ValueError: no configuration object exists
Failed(p) ==
    [ok |-> FALSE, case |-> "error", protocol |-> <<>>,
     path_without_protocol |-> <<>>, dir_path |-> <<>>, file_path |-> <<>>]

\* re.match(rf"{protocol}://([\s])/", path), on the text after "://"
MatchEmptyRoot(pwp) ==
    Len(pwp) >= 2 /\ pwp[1] \in WhiteSpace /\ pwp[2] = SLASH

\* group(1) of ([^/\s]+?) when it is followed by a "/" or by the end
BucketLen(pwp) == RunLen(pwp, WhiteSpace \cup {SLASH})

\* re.match(rf"{protocol}://([^/\s]+?)(/*)$", path)
MatchRootOnly(pwp) ==
    LET n == BucketLen(pwp)
        after == DropFirst(pwp, n)
    IN  n >= 1 /\ AtDollar(DropFirst(after, RunIn(after, {SLASH})))

\* re.match(rf"{protocol}://([^/\s]+?)/([^\s]*)", path)
MatchGeneral(pwp) ==
    LET n == BucketLen(pwp)
    IN  n >= 1 /\ Len(pwp) > n /\ pwp[n + 1] = SLASH

\* variant: the separator captured into group(2)
GeneralFileWithSep(pwp) ==
    LET n == BucketLen(pwp)
        rest == DropFirst(pwp, n)
    IN  SubSeq(rest, 1, RunLen(rest, WhiteSpace))

\* match.group(2) or "" of the general pattern: the longest run of
\* non-whitespace characters after the first separator
GeneralFile(pwp) ==
    LET n == BucketLen(pwp)
        rest == DropFirst(pwp, n + 1)
    IN  SubSeq(rest, 1, RunLen(rest, WhiteSpace))

PostInit(p) ==
    LET parts == Split(p, SchemeSep)
    IN  IF Len(parts) # 2 THEN Failed(p)       \* unpacking raises ValueError
        ELSE
        LET protocol == parts[1]
            pwp == parts[2]
        IN  IF ~IsSupported(protocol) THEN Failed(p)
            ELSE IF MatchEmptyRoot(pwp) /\ protocol = DROPBOX
            THEN [ok |-> TRUE, case |-> "empty_root", protocol |-> protocol,
                  path_without_protocol |-> pwp,
                  dir_path |-> <<" ">>, file_path |-> <<>>]
            ELSE IF MatchRootOnly(pwp)
            THEN [ok |-> TRUE, case |-> "root_only", protocol |-> protocol,
                  path_without_protocol |-> pwp,
                  dir_path |-> SubSeq(pwp, 1, BucketLen(pwp)), file_path |-> <<>>]
            ELSE IF MatchGeneral(pwp)
            THEN [ok |-> TRUE, case |-> "general", protocol |-> protocol,
                  path_without_protocol |-> pwp,
                  dir_path |-> SubSeq(pwp, 1, BucketLen(pwp)),
                  file_path |-> GeneralFile(pwp)]
            ELSE Failed(p)

\* `protocol://directory/file`, empty segments elided (spec, section 3)
Reconstruct(c) ==
    c.protocol \o SchemeSep \o c.dir_path
        \o (IF c.file_path = <<>> THEN <<>> ELSE <<SLASH>> \o c.file_path)

(***************************************************************************)
(* pathlib: Path(a) / b, str(Path), Path.resolve()                          *)
(***************************************************************************)
DOT == "."

\* the parts of a path: empty components and "." components are dropped
Segments(s) ==
    SelectSeq(Split(s, <<SLASH>>), LAMBDA x : x # <<>> /\ x # <<DOT>>)

RECURSIVE JoinSegs(_)
JoinSegs(segs) ==
    IF segs = <<>> THEN <<>>
    ELSE IF Len(segs) = 1 THEN segs[1]
    ELSE segs[1] \o <<SLASH>> \o JoinSegs(Tail(segs))

\* str(PurePosixPath(s)): one leading "/" (two when there are exactly two),
\* single separators, no trailing separator, "." for the empty path
PosixPath(s) ==
    LET body == JoinSegs(Segments(s))
        lead == RunIn(s, {SLASH})
        root == IF lead = 0 THEN <<>>
                ELSE IF lead = 2 THEN <<SLASH, SLASH>> ELSE <<SLASH>>
    IN  IF root = <<>> /\ body = <<>> THEN <<DOT>> ELSE root \o body

\* str(Path(a) / b): an absolute b replaces a
PathJoin(a, b) ==
    IF IsPrefix(<<SLASH>>, b) THEN PosixPath(b)
    ELSE IF PosixPath(a) = <<DOT>> THEN PosixPath(b)
    ELSE PosixPath(a \o <<SLASH>> \o b)

\* the working directory of the process
Cwd == <<SLASH, "w">>

\* Path.resolve() of a path without symbolic links or ".." components
Resolve(p) == PathJoin(Cwd, p)

(***************************************************************************)
(* Configuration of one run                                                 *)
(***************************************************************************)
DownloadDir == <<"d", "l">>             \* read_config.download_dir
OutputDir == <<"o", "u", "t">>          \* partition_config.output_dir
JSON == <<DOT, "j", "s", "o", "n">>

\* the source location, and the configuration built from it
SourcePath == <<"s", "3", ":", SLASH, SLASH, "b">>
SourceConfig == PostInit(SourcePath)

NoDest == <<>>
DestPaths ==
    { <<"s", "3", ":", SLASH, SLASH, "o", SLASH, "x">>,
      <<"s", "3", ":", SLASH, SLASH, "o", SLASH, "x", SLASH>> }

(***************************************************************************)
(* FsspecIngestDoc: local paths                                             *)
(***************************************************************************)
\* remote_file_path.replace(f"{dir_path}/", "")
StripDir(c, remote) == Replace(remote, c.dir_path \o <<SLASH>>, <<>>)

TmpDownloadFile(c, remote) == PathJoin(DownloadDir, StripDir(c, remote))

OutputFilename(c, remote) == PathJoin(OutputDir, StripDir(c, remote) \o JSON)

\* the `filename` property, which the skip-if-exists guard looks at
Filename(c, remote) == TmpDownloadFile(c, remote)

(***************************************************************************)
(* The backend: what fs.ls / fs.find and the drive report                   *)
(***************************************************************************)
\* the objects of the store, in the order the backend lists them; a directory
\* is reported as a 0 byte entry
Objects ==
    << [name |-> <<"b", SLASH, "a", DOT, "m", "d">>, dir |-> FALSE],
       [name |-> <<"b", SLASH, "b", SLASH>>, dir |-> TRUE],
       [name |-> <<"b", SLASH, "b", SLASH, "a", DOT, "m", "d">>, dir |-> FALSE],
       [name |-> <<"b", SLASH, "c", SLASH, "a", DOT, "m", "d">>, dir |-> FALSE] >>

\* size in bytes the backend reports for a file that is not empty
MaxSize == 2

\* a file object has 0 or MaxSize bytes
SizeMaps ==
    { f \in [1..Len(Objects) -> {0, MaxSize}] :
        \A k \in 1..Len(Objects) : Objects[k].dir => f[k] = 0 }

IsUnder(root, name) == IsPrefix(root \o <<SLASH>>, name)

IsChild(root, name) ==
    /\ IsUnder(root, name)
    /\ LET rel == DropFirst(name, Len(root) + 1)
           i == Find(rel, <<SLASH>>)
       IN  rel # <<>> /\ (i = 0 \/ i = Len(rel))

\* the indices of Objects, in listing order
ObjectIndices == [k \in 1..Len(Objects) |-> k]

\* fs.ls(path, detail=True): the direct children
Ls(root) ==
    SelectSeq(ObjectIndices, LAMBDA k : IsChild(root, Objects[k].name))

\* fs.find(path, detail=True): the whole subtree
FindAll(root) ==
    SelectSeq(ObjectIndices, LAMBDA k : IsUnder(root, Objects[k].name))

\* variant: the size filter lets 0 byte entries through
SizeAny(n) == n >= 0

\* `x.get("size") > 0`
SizeOk(n) == n > 0

\* FsspecSourceConnector._list_files: indices of the listed objects kept
ListFiles(c, rec, sz) ==
    LET listed == IF ~rec THEN Ls(c.path_without_protocol)
                  ELSE FindAll(c.path_without_protocol)
    IN  SelectSeq(listed, LAMBDA k : SizeOk(sz[k]))

\* FsspecSourceConnector.get_ingest_docs
FsspecDocs(c, rec, sz) ==
    LET files == ListFiles(c, rec, sz)
    IN  [j \in 1..Len(files) |->
            [remote |-> Objects[files[j]].name,
             size |-> sz[files[j]],
             filename |-> Filename(c, Objects[files[j]].name),
             target |-> TmpDownloadFile(c, Objects[files[j]].name),
             output |-> OutputFilename(c, Objects[files[j]].name)]]

(***************************************************************************)
(* OneDrive                                                                 *)
(***************************************************************************)
\* the folder config.path names
DriveFolder == <<"b">>

\* what parent_reference.path holds before the folder path
DriveRootRef == <<SLASH, "r", ":">>

Basename(name) == LET segs == Segments(name) IN segs[Len(segs)]

Dirname(name) ==
    LET segs == Segments(name) IN JoinSegs(SubSeq(segs, 1, Len(segs) - 1))

\* OneDriveConnector._list_objects: the files of the folder, then those of
\* its sub-folders
ListObjects(folder, rec) ==
    LET files == SelectSeq(ObjectIndices,
                    LAMBDA k : ~Objects[k].dir /\ IsChild(folder, Objects[k].name))
        nested == SelectSeq(ObjectIndices,
                    LAMBDA k : /\ ~Objects[k].dir
                               /\ IsUnder(folder, Objects[k].name)
                               /\ ~IsChild(folder, Objects[k].name))
    IN  IF ~rec THEN files ELSE files \o nested

\* OneDriveConnector._gen_ingest_doc: file_path from parent_reference.path
GenFilePath(k) ==
    LET ref == DriveRootRef \o <<SLASH>> \o Dirname(Objects[k].name)
        parts == Split(ref, <<":">>)
        last == parts[Len(parts)]
    IN  IF last # <<>> /\ last[1] = SLASH THEN Tail(last) ELSE last

\* "".join(Path(file_name).suffixes) for a name with an inner "."
Ext(name) == DropFirst(name, Find(name, <<DOT>>) - 1)

\* OneDriveIngestDoc._set_download_paths
OneDriveDownloadFilepath(file_path, file_name) ==
    LET download_path == IF file_path = <<>> THEN DownloadDir
                         ELSE Resolve(PathJoin(DownloadDir, file_path))
    IN  Resolve(PathJoin(download_path, file_name))

OneDriveOutputFilepath(file_path, file_name) ==
    LET output_path == IF file_path = <<>> THEN OutputDir
                       ELSE Resolve(PathJoin(OutputDir, file_path))
        oname == SubSeq(file_name, 1, Len(file_name) - Len(Ext(file_name))) \o JSON
    IN  Resolve(PathJoin(output_path, oname))

\* OneDriveConnector.get_ingest_docs
OneDriveDocs(rec, sz) ==
    LET files == ListObjects(DriveFolder, rec)
    IN  [j \in 1..Len(files) |->
            LET file_name == Basename(Objects[files[j]].name)
                file_path == GenFilePath(files[j])
            IN  [remote |-> file_path \o <<SLASH>> \o file_name,
                 size |-> sz[files[j]],
                 filename |-> Resolve(OneDriveDownloadFilepath(file_path, file_name)),
                 target |-> Resolve(OneDriveDownloadFilepath(file_path, file_name)),
                 output |-> Resolve(OneDriveOutputFilepath(file_path, file_name))]]

(***************************************************************************)
(* Wikipedia                                                                *)
(***************************************************************************)
\* str(revision_id)
Digits == <<"0", "1", "2", "3", "4", "5", "6", "7", "8", "9">>

RECURSIVE Str(_)
Str(n) ==
    IF n < 10 THEN <<Digits[n + 1]>>
    ELSE Str(n \div 10) \o <<Digits[(n % 10) + 1]>>

\* f"{self.page.title}-{self.page.revision_id}" for the page as it is when the
\* property is read
PageStem(r) == <<"T", "-">> \o Str(r)

\* the file names of the text, HTML and summary documents
WikipediaNames(r) ==
    << [down |-> PageStem(r) \o <<DOT, "t", "x", "t">>,
        out |-> PageStem(r) \o <<"-", "t", "x", "t">> \o JSON],
       [down |-> PageStem(r) \o <<DOT, "h", "t", "m", "l">>,
        out |-> PageStem(r) \o <<"-", "h", "t", "m", "l">> \o JSON],
       [down |-> PageStem(r) \o <<"-", "s", "u", "m", "m", "a", "r", "y", DOT, "t", "x", "t">>,
        out |-> PageStem(r) \o <<"-", "s", "u", "m", "m", "a", "r", "y">> \o JSON] >>

\* the filename property of document j, read while the page has revision r
WikipediaFilename(j, r) == Resolve(PathJoin(DownloadDir, WikipediaNames(r)[j].down))

\* the _output_filename property of document j, read at revision r
WikipediaOutputFilename(j, r) == PathJoin(OutputDir, WikipediaNames(r)[j].out)

\* the lengths of the three texts are the sizes of the three file objects
TextSize(sz, j) ==
    sz[SelectSeq(ObjectIndices, LAMBDA k : ~Objects[k].dir)[j]]

\* WikipediaConnector.get_ingest_docs: text, HTML and summary of the page; the
\* documents hold no path, their properties ask for the page at each read:
\* filename[r] and output[r] are what the properties return at revision r
WikipediaDocs(sz) ==
    [j \in 1..3 |->
        [remote |-> <<"T">>,
         size |-> TextSize(sz, j),
         filename |-> [r \in 1..MaxRev |-> WikipediaFilename(j, r)],
         output |-> [r \in 1..MaxRev |-> WikipediaOutputFilename(j, r)]]]

\* get_ingest_docs of the configured connector
GetIngestDocs(kd, rec, sz) ==
    CASE kd = "fsspec" -> FsspecDocs(SourceConfig, rec, sz)
      [] kd = "onedrive" -> OneDriveDocs(rec, sz)
      [] kd = "wikipedia" -> WikipediaDocs(sz)

(***************************************************************************)
(* The lifecycle of the documents of one run                                *)
(***************************************************************************)
Kinds == {"fsspec", "onedrive", "wikipedia"}

Range(f) == {f[x] : x \in DOMAIN f}

Pending ==
    [state |-> "Pending", calls |-> 0, transfers |-> 0, error |-> "none",
     raised |-> FALSE, got |-> FALSE, firstOk |-> FALSE, contacted |-> FALSE]

\* no get_file call of the document is running
NotRunning == [pc |-> "idle", file |-> <<>>]

NoWrite == [called |-> FALSE, docs |-> <<>>, fails |-> {}, raised |-> FALSE]

\* no write() call is running
NoUpload == [pc |-> "idle", batch |-> <<>>, k |-> 0, fails |-> {}]

\* the state of the run-related variables while a configuration is resolved
IdleRun ==
    /\ kind = "fsspec"
    /\ recursive = FALSE
    /\ sizes = [k \in 1..Len(Objects) |-> 0]
    /\ dest = NoDest
    /\ lpc = "idle"
    /\ docs = <<>>
    /\ st = <<>>
    /\ inflight = <<>>
    /\ rev = 1
    /\ disk = <<>>
    /\ put = <<>>
    /\ wlog = NoWrite
    /\ wr = NoUpload

IdleResolve ==
    /\ path = <<>>
    /\ rpc = "idle"
    /\ cfg = Failed(<<>>)
    /\ cfg2 = Failed(<<>>)

\* a source connector (and, for fsspec, possibly a destination connector) has
\* been constructed; nothing is listed or downloaded yet
Init ==
    /\ IdleResolve
    /\ kind \in Kinds
    /\ recursive \in (IF kind = "wikipedia" THEN {FALSE} ELSE BOOLEAN)
    /\ sizes \in SizeMaps
    /\ dest \in (IF kind = "fsspec" THEN {NoDest} \cup DestPaths ELSE {NoDest})
    /\ lpc = "start"
    /\ docs = <<>>
    /\ st = <<>>
    /\ inflight = <<>>
    /\ rev = 1
    /\ disk = <<>>
    /\ put = <<>>
    /\ wlog = NoWrite
    /\ wr = NoUpload

\* every local path a document of the run can name
LocalFiles(kd, ds) ==
    IF kd = "wikipedia"
    THEN {ds[j].filename[r] : j \in DOMAIN ds, r \in 1..MaxRev}
    ELSE {ds[i].filename : i \in DOMAIN ds} \cup {ds[i].target : i \in DOMAIN ds}

\* get_ingest_docs(): the documents, all Pending, none of their files on disk
ListDocs ==
    /\ lpc = "start"
    /\ lpc' = "listed"
    /\ docs' = GetIngestDocs(kind, recursive, sizes)
    /\ st' = [i \in DOMAIN docs' |-> Pending]
    /\ inflight' = [i \in DOMAIN docs' |-> NotRunning]
    /\ disk' = [p \in LocalFiles(kind, docs') |-> "absent"]
    /\ put' = [i \in DOMAIN docs' |-> <<>>]
    /\ UNCHANGED <<rvars, kind, recursive, sizes, dest, rev, wlog, wr>>

\* the page is edited: wikipedia.page() returns the next revision_id from now on
PageEdited ==
    /\ kind = "wikipedia"
    /\ rev < MaxRev
    /\ rev' = rev + 1
    /\ UNCHANGED <<rvars, kind, recursive, sizes, dest, lpc, docs, st, inflight,
                   disk, put, wlog, wr>>

\* self.filename of document i, as read in the current state
LocalFile(i) ==
    IF kind = "wikipedia" THEN docs[i].filename[rev] ELSE docs[i].filename

\* the local path get_file of document i writes to, as read in the current state
TargetFile(i) ==
    IF kind = "wikipedia" THEN docs[i].filename[rev] ELSE docs[i].target

\* BaseIngestDoc.skip_if_file_exists: the local file exists and is not empty
ShouldSkip(content) == content \in {"partial", "full"}

\* SourceConnectionError.wrap: what the caller of get_file sees when the
\* wrapped function raised (escaped) or not
WrapError(escaped) == IF escaped THEN "SourceConnectionError" ELSE "none"

\* the caller starts a get_file call on a document that has none running
CanFetch(i) ==
    /\ lpc = "listed"
    /\ i \in DOMAIN docs
    /\ st[i].state \in {"Pending", "Fetched", "FetchFailed"}
    /\ inflight[i].pc = "idle"
    /\ st[i].calls < MaxFetch

\* the record of one get_file call on document i, made when the call returns
\* or raises; content is what the local file holds at that moment
AfterCall(i, transferred, raised, escaped, content) ==
    [st EXCEPT ![i] =
        [state |-> IF escaped THEN "FetchFailed" ELSE "Fetched",
         calls |-> @.calls + 1,
         transfers |-> @.transfers + (IF transferred THEN 1 ELSE 0),
         error |-> WrapError(escaped),
         raised |-> raised,
         got |-> @.got \/ (transferred /\ ~raised),
         firstOk |-> IF @.calls = 0
                     THEN transferred /\ ~raised /\ content = "full"
                     ELSE @.firstOk,
         contacted |-> transferred \/ kind = "wikipedia"]]

\* the skip branch of the guard: get_file returns without a transfer
Skipped(i) ==
    /\ ShouldSkip(disk[LocalFile(i)])
    /\ st' = AfterCall(i, FALSE, FALSE, FALSE, disk[LocalFile(i)])
    /\ UNCHANGED inflight

\* get_file is called: the guard reads self.filename and looks at the file.
\* For a Wikipedia document self.filename asks for the page, which can raise.
BeginCall(i) ==
    /\ CanFetch(i)
    /\ \/ Skipped(i)
       \/ /\ ~ShouldSkip(disk[LocalFile(i)])
          /\ inflight' = [inflight EXCEPT ![i] = [pc |-> "guarded", file |-> <<>>]]
          /\ UNCHANGED st
       \/ /\ kind = "wikipedia"
          /\ st' = AfterCall(i, TRUE, TRUE, TRUE, disk[LocalFile(i)])
          /\ UNCHANGED inflight
    /\ UNCHANGED <<rvars, kind, recursive, sizes, dest, lpc, docs, rev, disk, put,
                   wlog, wr>>

\* the body creates the directory and opens the local file for writing: the
\* file exists and is empty, whatever it held
OpenFile(i) ==
    /\ lpc = "listed"
    /\ i \in DOMAIN docs
    /\ inflight[i].pc = "guarded"
    /\ disk' = [disk EXCEPT ![TargetFile(i)] = "empty"]
    /\ inflight' = [inflight EXCEPT ![i] = [pc |-> "open", file |-> TargetFile(i)]]
    /\ UNCHANGED <<rvars, kind, recursive, sizes, dest, lpc, docs, st, rev, put,
                   wlog, wr>>

\* the file at a path after a call that has it open wrote the first part of
\* its object, from offset 0: a file that was removed meanwhile stays removed
\* (the bytes go to the unlinked file), a file that another call has filled
\* keeps its size
AfterFirstPart(content) ==
    IF content \in {"absent", "full"} THEN content ELSE "partial"

\* the file at a path after a call that has it open wrote the last byte of an
\* object of the given size
AfterLastPart(content, size) ==
    IF content = "absent" \/ size = 0 THEN content ELSE "full"

\* the first part of the object has arrived and is in the local file
WriteChunk(i) ==
    /\ lpc = "listed"
    /\ i \in DOMAIN docs
    /\ inflight[i].pc = "open"
    /\ docs[i].size > 1
    /\ disk' = [disk EXCEPT ![inflight[i].file] = AfterFirstPart(@)]
    /\ inflight' = [inflight EXCEPT ![i].pc = "writing"]
    /\ UNCHANGED <<rvars, kind, recursive, sizes, dest, lpc, docs, st, rev, put,
                   wlog, wr>>

\* the transfer completes and get_file returns
EndTransfer(i) ==
    /\ lpc = "listed"
    /\ i \in DOMAIN docs
    /\ inflight[i].pc \in {"open", "writing"}
    /\ disk' = [disk EXCEPT ![inflight[i].file] = AfterLastPart(@, docs[i].size)]
    /\ st' = AfterCall(i, TRUE, FALSE, FALSE, disk'[inflight[i].file])
    /\ inflight' = [inflight EXCEPT ![i] = NotRunning]
    /\ UNCHANGED <<rvars, kind, recursive, sizes, dest, lpc, docs, rev, put, wlog, wr>>

\* a request to the backend raises, before the local file is opened or during
\* the transfer: the file stays as it is. escaped tells whether the exception
\* leaves the body of get_file.
RaiseTransfer(i, escaped) ==
    /\ lpc = "listed"
    /\ i \in DOMAIN docs
    /\ inflight[i].pc \in {"guarded", "open", "writing"}
    /\ st' = AfterCall(i, TRUE, TRUE, escaped,
                       disk[IF inflight[i].pc = "guarded"
                            THEN TargetFile(i) ELSE inflight[i].file])
    /\ inflight' = [inflight EXCEPT ![i] = NotRunning]
    /\ UNCHANGED <<rvars, kind, recursive, sizes, dest, lpc, docs, rev, disk, put,
                   wlog, wr>>

\* FsspecIngestDoc.get_file (S3IngestDoc.get_file calls it): the guard, then
\* fs.get, which writes the local file piece by piece and either completes or
\* raises; the wrapper turns what is raised into SourceConnectionError
GetFileFsspec(i) ==
    /\ kind = "fsspec"
    /\ \/ BeginCall(i)
       \/ OpenFile(i)
       \/ WriteChunk(i)
       \/ EndTransfer(i)
       \/ RaiseTransfer(i, TRUE)

\* OneDriveIngestDoc.get_file: the guard, then the download into the opened
\* file; an exception of the body is caught, logged and the method returns
GetFileOneDrive(i) ==
    /\ kind = "onedrive"
    /\ \/ BeginCall(i)
       \/ OpenFile(i)
       \/ WriteChunk(i)
       \/ EndTransfer(i)
       \/ RaiseTransfer(i, FALSE)

\* WikipediaIngestDoc.get_file: the guard, then open(self.filename, "w"), then
\* self.text is fetched and written in one piece
GetFileWikipedia(i) ==
    /\ kind = "wikipedia"
    /\ \/ BeginCall(i)
       \/ OpenFile(i)
       \/ EndTransfer(i)
       \/ RaiseTransfer(i, TRUE)

\* the partitioner (external): reads the downloaded file and produces the
\* output artifact, or fails
Partition(i) ==
    /\ lpc = "listed"
    /\ i \in DOMAIN docs
    /\ st[i].state = "Fetched"
    /\ inflight[i].pc = "idle"
    /\ \/ /\ disk[LocalFile(i)] \in {"partial", "full"}
          /\ st' = [st EXCEPT ![i].state = "Processed"]
       \/ st' = [st EXCEPT ![i].state = "ProcessFailed"]
    /\ UNCHANGED <<rvars, kind, recursive, sizes, dest, lpc, docs, inflight, rev,
                   disk, put, wlog, wr>>

(***************************************************************************)
(* FsspecDestinationConnector.write                                         *)
(***************************************************************************)
\* the rpath handed to fs.put_file for one document
S3OutputPath(dpath, output) ==
    LET replaced == Replace(output, OutputDir, dpath)
        s3_folder == IF dpath[Len(dpath)] # SLASH
                     THEN replaced \o <<SLASH>> ELSE dpath
        s3_file_path == IF replaced[1] = SLASH THEN Tail(replaced) ELSE replaced
    IN  s3_folder \o s3_file_path

\* the documents handed to write(): those whose output exists, in list order
Processed == SelectSeq([i \in DOMAIN docs |-> i], LAMBDA i : st[i].state = "Processed")

\* write(docs) is called with the documents whose output exists; fails are
\* the documents of docs whose upload cannot succeed
WriteBegin ==
    /\ lpc = "listed"
    /\ dest # NoDest
    /\ wr.pc = "idle"
    /\ Processed # <<>>
    /\ \E fails \in SUBSET Range(Processed) :
          wr' = [pc |-> "loop", batch |-> Processed, k |-> 1, fails |-> fails]
    /\ UNCHANGED <<rvars, kind, recursive, sizes, dest, lpc, docs, st, inflight,
                   rev, disk, put, wlog>>

\* one round of the for loop: fs.put_file of the next document returns, or
\* raises, and the exception leaves the loop and the method
PutFile ==
    /\ wr.pc = "loop"
    /\ wr.k <= Len(wr.batch)
    /\ LET i == wr.batch[wr.k]
       IN  IF i \in wr.fails
           THEN /\ st' = [st EXCEPT ![i].state = "WriteFailed"]
                /\ wlog' = [called |-> TRUE, docs |-> wr.batch,
                            fails |-> wr.fails, raised |-> TRUE]
                /\ wr' = NoUpload
                /\ UNCHANGED put
           ELSE /\ put' = [put EXCEPT ![i] = S3OutputPath(dest, docs[i].output)]
                /\ st' = [st EXCEPT ![i].state = "Written"]
                /\ wr' = [wr EXCEPT !.k = @ + 1]
                /\ UNCHANGED wlog
    /\ UNCHANGED <<rvars, kind, recursive, sizes, dest, lpc, docs, inflight, rev,
                   disk>>

\* the for loop is through: write() returns
WriteReturn ==
    /\ wr.pc = "loop"
    /\ wr.k > Len(wr.batch)
    /\ wlog' = [called |-> TRUE, docs |-> wr.batch, fails |-> wr.fails,
                raised |-> FALSE]
    /\ wr' = NoUpload
    /\ UNCHANGED <<rvars, kind, recursive, sizes, dest, lpc, docs, st, inflight,
                   rev, disk, put>>

\* FsspecDestinationConnector.write(docs)
Write == WriteBegin \/ PutFile \/ WriteReturn

(***************************************************************************)
(* IngestDocCleanupMixin.cleanup_file, as the run invokes it                *)
(***************************************************************************)
\* the state in which the run is done with a document's output
Consumed == IF dest # NoDest THEN "Written" ELSE "Processed"

CleanupFile(i) ==
    /\ lpc = "listed"
    /\ i \in DOMAIN docs
    /\ st[i].state = Consumed
    /\ st' = [st EXCEPT ![i].state = "CleanedUp"]
    /\ disk' = [disk EXCEPT ![LocalFile(i)] = "absent"]
    /\ UNCHANGED <<rvars, kind, recursive, sizes, dest, lpc, docs, inflight, rev,
                   put, wlog, wr>>

\* no run lists more documents than the backend has objects
MaxDocs == Len(Objects)

Next ==
    \/ ListDocs
    \/ PageEdited
    \/ \E i \in 1..MaxDocs : GetFileFsspec(i)
    \/ \E i \in 1..MaxDocs : GetFileOneDrive(i)
    \/ \E i \in 1..MaxDocs : GetFileWikipedia(i)
    \/ \E i \in 1..MaxDocs : Partition(i)
    \/ Write
    \/ \E i \in 1..MaxDocs : CleanupFile(i)

Spec == Init /\ [][Next]_vars

\* the same run, restricted to listing and get_file calls
NextFetch ==
    \/ ListDocs
    \/ PageEdited
    \/ \E i \in 1..MaxDocs : GetFileFsspec(i)
    \/ \E i \in 1..MaxDocs : GetFileOneDrive(i)
    \/ \E i \in 1..MaxDocs : GetFileWikipedia(i)

SpecFetch == Init /\ [][NextFetch]_vars

\* the listing alone
NextList == ListDocs

SpecList == Init /\ [][NextList]_vars

(***************************************************************************)
(* SpecResolve: construct a SimpleFsspecConfig from a raw location string,  *)
(* then construct one from the reconstructed string                         *)
(***************************************************************************)
RestAlphabet == {"a", SLASH, " ", "\n", ":"}

RECURSIVE StringsUpTo(_, _)
StringsUpTo(alphabet, n) ==
    IF n = 0 THEN {<<>>}
    ELSE LET shorter == StringsUpTo(alphabet, n - 1)
         IN  shorter \cup {Append(s, c) : s \in shorter, c \in alphabet}

InputSchemes ==
    { <<"s", "3">>, <<"a", "z">>, DROPBOX, <<"f", "t", "p">>, <<>> }

InputSeps == { SchemeSep, <<>> }

RawLocations ==
    { sch \o sep \o rest :
        sch \in InputSchemes, sep \in InputSeps,
        rest \in StringsUpTo(RestAlphabet, MaxLen) }

NoConfig == Failed(<<>>)

InitResolve ==
    /\ IdleRun
    /\ path \in RawLocations
    /\ rpc = "init"
    /\ cfg = NoConfig
    /\ cfg2 = NoConfig

\* SimpleFsspecConfig(path=path): the dataclass runs __post_init__
Construct ==
    /\ rpc = "init"
    /\ cfg' = PostInit(path)
    /\ rpc' = "resolved"
    /\ UNCHANGED <<path, cfg2, lvars>>

\* SimpleFsspecConfig(path=Reconstruct(cfg)) for a configuration that was built
Rebuild ==
    /\ rpc = "resolved"
    /\ cfg.ok
    /\ cfg2' = PostInit(Reconstruct(cfg))
    /\ rpc' = "rebuilt"
    /\ UNCHANGED <<path, cfg, lvars>>

NextResolve == Construct \/ Rebuild

SpecResolve == InitResolve /\ [][NextResolve]_vars

(***************************************************************************)
(* Properties of SimpleFsspecConfig.__post_init__ (under SpecResolve)       *)
(***************************************************************************)
\* the text before the first "://" and the text after it
SchemeOf(p) == SubSeq(p, 1, Find(p, SchemeSep) - 1)
AfterScheme(p) == DropFirst(p, Find(p, SchemeSep) + Len(SchemeSep) - 1)

\* C7: a raw location string without "://", or whose scheme is not one of the
\* recognized protocols, makes the construction of the configuration fail:
\* no directory/file decomposition is produced.
C7_MalformedRejected ==
    (rpc # "init"
     /\ (~Contains(path, SchemeSep)
         \/ SchemeOf(path) \notin SUPPORTED_REMOTE_FSSPEC_PROTOCOLS))
    => (~cfg.ok /\ cfg.case = "error" /\ rpc = "resolved")

\* a string without "://" was handed to the constructor, which raised
C7_Witness ==
    rpc = "resolved" /\ ~Contains(path, SchemeSep) /\ Len(path) >= 3 /\ ~cfg.ok

\* path = scheme://bucket/rest, recognized scheme, non-empty bucket without
\* separator, non-empty rest that is not only separators
IsBucketRest(p) ==
    /\ Contains(p, SchemeSep)
    /\ SchemeOf(p) \in SUPPORTED_REMOTE_FSSPEC_PROTOCOLS
    /\ LET after == AfterScheme(p)
           j == Find(after, <<SLASH>>)
       IN  /\ j >= 2
           /\ DropFirst(after, j) # <<>>
           /\ ~AllSlashes(DropFirst(after, j))

BucketOf(p) == SubSeq(AfterScheme(p), 1, Find(AfterScheme(p), <<SLASH>>) - 1)
RestOf(p) == DropFirst(AfterScheme(p), Find(AfterScheme(p), <<SLASH>>))

\* C8: for scheme://bucket/rest (recognized scheme, non-empty bucket without
\* separator, non-empty rest not made of separators only) the configuration
\* is built with directory = bucket and file = the whole of rest.
C8_BucketAndWholeRest ==
    (rpc # "init" /\ IsBucketRest(path))
    => (cfg.ok /\ cfg.dir_path = BucketOf(path) /\ cfg.file_path = RestOf(path))

\* C9 as stated: every accepted raw location string, the empty-root case
\* included, is reconstructed to a string that is accepted and resolves to the
\* same protocol, directory and file.
C9_RoundTripAll ==
    rpc = "rebuilt"
    => (/\ cfg2.ok
        /\ cfg2.protocol = cfg.protocol
        /\ cfg2.dir_path = cfg.dir_path
        /\ cfg2.file_path = cfg.file_path)

\* C9 (amended): a raw location string accepted by the root-only or the general
\* case is reconstructed to a string that is accepted, resolves to the same
\* protocol and directory, and to the same file unless that file consists of
\* separators only (the reconstruction is then root-only, with an empty file);
\* the reconstruction of the empty-root case, `protocol:// `, is rejected.
C9_RoundTrip ==
    rpc = "rebuilt"
    => IF cfg.case = "empty_root"
       THEN ~cfg2.ok
       ELSE /\ cfg2.ok
            /\ cfg2.protocol = cfg.protocol
            /\ cfg2.dir_path = cfg.dir_path
            /\ cfg2.file_path =
                   (IF AllSlashes(cfg.file_path) THEN <<>> ELSE cfg.file_path)

\* a general-case location with a nested file part went through the round trip
C9_Witness ==
    /\ rpc = "rebuilt"
    /\ cfg.case = "general"
    /\ Contains(cfg.file_path, <<SLASH, "a">>)
    /\ cfg2.ok
    /\ cfg2.file_path = cfg.file_path

\* the one string of the empty-root case: dropbox, "://", one space, one
\* separator, nothing else
EmptyRootLocation == DROPBOX \o SchemeSep \o <<" ", SLASH>>

\* C11: the construction yields the empty-root decomposition (directory = the
\* single-space sentinel, file = "") exactly when the raw location string is
\* the empty-root scheme, "://", one space, one separator and nothing else.
C11_SentinelOnlyForEmptyRoot ==
    rpc # "init"
    => ((cfg.ok /\ cfg.dir_path = <<" ">> /\ cfg.file_path = <<>>)
        <=> path = EmptyRootLocation)

(***************************************************************************)
(* Properties of a run (under Spec and SpecFetch)                           *)
(***************************************************************************)
Listed == lpc = "listed"

\* C1: two documents of the same fsspec source connector whose remote
\* references differ have different local download paths, so no two get_file
\* calls that run at the same time have the same local file open.
C1_DistinctDownloadPaths ==
    (Listed /\ kind = "fsspec")
    => /\ \A i, j \in DOMAIN docs :
            docs[i].remote # docs[j].remote => docs[i].target # docs[j].target
       /\ \A i, j \in DOMAIN docs :
            (i # j /\ inflight[i].pc = "open" /\ inflight[j].pc = "open")
            => inflight[i].file # inflight[j].file

\* the destination root as a directory: without its trailing separators
RECURSIVE RootDir(_)
RootDir(root) ==
    IF root # <<>> /\ root[Len(root)] = SLASH
    THEN RootDir(SubSeq(root, 1, Len(root) - 1)) ELSE root

\* the local output path relative to the local output root
RelativeOutput(output) == DropFirst(output, Len(OutputDir) + 1)

\* the upload target the mapping rule gives, written with the scheme
\* (scheme://bucket/out/sub/b.txt.json) or without it (bucket/out/sub/b.txt.json)
ExpectedTargets(root, output) ==
    { RootDir(root) \o <<SLASH>> \o RelativeOutput(output),
      RootDir(AfterScheme(root)) \o <<SLASH>> \o RelativeOutput(output) }

\* C2: the rpath a document's output is put to is the destination root, as a
\* directory, followed by the output path relative to the output root, whether
\* or not the root ends with a separator.
C2_UploadTarget ==
    \A i \in DOMAIN put :
        put[i] # <<>> => put[i] \in ExpectedTargets(dest, docs[i].output)

\* C3: after write(docs), every document of docs whose upload does not fail
\* has been uploaded, and each document whose upload failed is marked failed.
C3_UploadFailureIsolated ==
    wlog.called
    => /\ \A i \in Range(wlog.docs) \ wlog.fails : put[i] # <<>>
       /\ \A i \in Range(wlog.docs) \cap wlog.fails : st[i].state = "WriteFailed"

\* C4: a get_file call whose transfer does not raise leaves its document
\* Fetched; a call whose transfer raises is reported for that document, and
\* only for it, as SourceConnectionError; a call on one document changes
\* neither the state nor the local paths of the others.
C4_FetchFailureIsolated ==
    /\ [](\A i \in DOMAIN st :
            st[i].calls > 0
            => /\ st[i].raised <=> st[i].error = "SourceConnectionError"
               /\ st[i].raised <=> st[i].state = "FetchFailed"
               /\ st[i].error = "none" => st[i].state # "FetchFailed")
    /\ [][\A i \in DOMAIN st :
            (i \in DOMAIN st' /\ st'[i].calls = st[i].calls + 1)
            => /\ docs' = docs
               /\ \A j \in DOMAIN st \ {i} : st'[j] = st[j]]_vars

\* C5: when the first get_file call on a document transferred a non-empty file,
\* the later calls on it transfer nothing: the document has exactly one transfer.
C5_OneTransfer ==
    \A i \in DOMAIN st : st[i].firstOk => st[i].transfers = 1

\* the entries list() considers: the direct children of the root, or its subtree
Considered ==
    { k \in 1..Len(Objects) :
        IF recursive
        THEN IsUnder(SourceConfig.path_without_protocol, Objects[k].name)
        ELSE IsChild(SourceConfig.path_without_protocol, Objects[k].name) }

\* C6: list() returns exactly one document per considered entry of size > 0
\* and none for an entry of size 0 or an entry that is not considered.
C6_ListNonEmptyEntries ==
    (Listed /\ kind = "fsspec")
    => /\ \A k \in Considered :
            Cardinality({i \in DOMAIN docs : docs[i].remote = Objects[k].name})
                = (IF sizes[k] > 0 THEN 1 ELSE 0)
       /\ \A i \in DOMAIN docs :
            \E k \in Considered : docs[i].remote = Objects[k].name

\* recursive listing of a file, a 0 byte directory entry and a nested file
C6_Witness ==
    /\ Listed /\ kind = "fsspec" /\ recursive
    /\ sizes[1] > 0 /\ sizes[2] = 0 /\ sizes[3] > 0 /\ sizes[4] = 0
    /\ Len(docs) = 2
    /\ docs[1].remote = Objects[1].name
    /\ docs[2].remote = Objects[3].name

\* the local paths a completed transfer of document i can have written
DownloadArtifacts(i) ==
    IF kind = "wikipedia"
    THEN {docs[i].filename[r] : r \in 1..MaxRev}
    ELSE {docs[i].target}

\* C10: the download artifact of a document stays on disk until the cleanup of
\* that document, which comes after its output was produced (and written, with
\* a destination); a document for which a step failed is not cleaned up and
\* its artifact is still on disk.
C10_ArtifactKeptUntilCleanup ==
    \A i \in DOMAIN st :
        /\ (st[i].got /\ st[i].state # "CleanedUp")
               => \E p \in DownloadArtifacts(i) : disk[p] # "absent"
        /\ (st[i].state = "CleanedUp" /\ dest # NoDest) => put[i] # <<>>


\* a get_file call on document i starts in this step: its guard runs
CallStarts(i) ==
    /\ i \in DOMAIN st /\ i \in DOMAIN st'
    /\ inflight[i].pc = "idle"
    /\ (inflight'[i].pc # "idle" \/ st'[i].calls = st[i].calls + 1)

\* the call that starts in this step returns at once, without a transfer, and
\* the document is Fetched
SkipsTransfer(i) ==
    /\ CallStarts(i)
    /\ st'[i].calls = st[i].calls + 1
    /\ st'[i].transfers = st[i].transfers
    /\ st'[i].state = "Fetched"

\* the local download file of document i exists and holds at least one byte
HasNonEmptyFile(i) == disk[LocalFile(i)] \in {"partial", "full"}

\* C12: a get_file call returns without a transfer, the document Fetched,
\* exactly when the local download file exists and is non-empty at the time
\* of the call (an absent or zero-byte file makes the call contact the
\* backend); and in every reachable state a document that is Fetched has a
\* local download file that exists and is non-empty, also after an earlier
\* failed call.
C12_FetchedHasNonEmptyFile ==
    /\ [][\A i \in DOMAIN st :
            CallStarts(i) => (SkipsTransfer(i) <=> HasNonEmptyFile(i))]_vars
    /\ [](\A i \in DOMAIN st :
            st[i].state = "Fetched" => HasNonEmptyFile(i))

====
